---- MODULE Spec2Model ----
(***************************************************************************)
(* A model of src/app.py: the SQLite record store (projects, notes,        *)
(* resources, ideas), the page handlers that write to it, and the          *)
(* cross-entity search run_semanticish_search.                             *)
(*                                                                         *)
(* Representation.  A Python str is a sequence of one-character strings,   *)
(* so that lower(), join and the `in` substring test are computed.  SQL    *)
(* NULL in a TEXT column is Null, in an INTEGER column NullId.  A          *)
(* timestamp is the number of seconds after Epoch; now_str() renders it    *)
(* with IsoFormat.  A missing cell of the merged frame (pandas NaN) is     *)
(* NaN.                                                                    *)
(*                                                                         *)
(* page_projects is modelled as it is laid out, although lines 303-310 of  *)
(* the source are dedented out of the function and line 286 calls          *)
(* project_form without its key_prefix: the add block (286-294) and the    *)
(* edit block (298-316) are taken as two buttons of the page.              *)
(***************************************************************************)
EXTENDS Integers, Sequences, FiniteSets, TLC

VARIABLES db, clock, results, query, op

vars == <<db, clock, results, query, op>>

(* ------------------------------ bounds --------------------------------- *)

\* rows the store holds at most, all four tables together
MaxRows == 3
\* last second of the modelled clock
MaxClock == 1

(* ------------------------------ strings -------------------------------- *)

Null == <<"NULL">>
NullId == 0
NaN == -1

UpperCs == <<"A","B","C","D","E","F","G","H","I","J","K","L","M",
             "N","O","P","Q","R","S","T","U","V","W","X","Y","Z">>
LowerCs == <<"a","b","c","d","e","f","g","h","i","j","k","l","m",
             "n","o","p","q","r","s","t","u","v","w","x","y","z">>

\* str.lower() on one character; characters outside A-Z are kept
LowerChar(c) ==
  IF \E i \in 1..Len(UpperCs) : UpperCs[i] = c
    THEN LowerCs[CHOOSE i \in 1..Len(UpperCs) : UpperCs[i] = c]
    ELSE c

\* str.lower()
lower(s) == [i \in 1..Len(s) |-> LowerChar(s[i])]

\* str.strip(): leading and trailing blanks removed
RECURSIVE lstrip(_)
lstrip(s) == IF s # <<>> /\ Head(s) = " " THEN lstrip(Tail(s)) ELSE s

RECURSIVE rstrip(_)
rstrip(s) ==
  IF s # <<>> /\ s[Len(s)] = " " THEN rstrip(SubSeq(s, 1, Len(s) - 1)) ELSE s

strip(s) == rstrip(lstrip(s))

\* Python's `needle in hay` on strings
contains(hay, needle) ==
  \/ needle = <<>>
  \/ \E i \in 1..(Len(hay) - Len(needle) + 1) :
        SubSeq(hay, i, i + Len(needle) - 1) = needle

\* sep.join(parts)
RECURSIVE join(_, _)
join(sep, parts) ==
  IF parts = <<>> THEN <<>>
  ELSE IF Len(parts) = 1 THEN parts[1]
  ELSE parts[1] \o sep \o join(sep, Tail(parts))

DigitCs == <<"0","1","2","3","4","5","6","7","8","9">>

\* str(n) of a non-negative int
RECURSIVE IntStr(_)
IntStr(n) ==
  IF n < 10 THEN <<DigitCs[n + 1]>>
  ELSE IntStr(n \div 10) \o <<DigitCs[(n % 10) + 1]>>

\* str(x) of a TEXT cell: None renders as "None"
TextStr(x) == IF x = Null THEN <<"N","o","n","e">> ELSE x

TwoDigits(n) == <<DigitCs[(n \div 10) + 1], DigitCs[(n % 10) + 1]>>

\* datetime.isoformat(timespec="seconds") of the instant t seconds after
\* 2024-01-01T00:00:00 (t < 60); fixed width, so the strings order as the
\* instants do
IsoFormat(t) ==
  <<"2","0","2","4","-","0","1","-","0","1","T","0","0",":","0","0",":">>
    \o TwoDigits(t)

\* date.isoformat() of day d of January 2024
DateIso(d) == <<"2","0","2","4","-","0","1","-">> \o TwoDigits(d)

(* ---------------------------- form values ------------------------------ *)

AcmePortal == <<"A","c","m","e"," ","P","o","r","t","a","l">>
Widget == <<"W","i","d","g","e","t">>
KickoffCall ==
  <<"i","n","i","t","i","a","l"," ","k","i","c","k","o","f","f"," ",
    "c","a","l","l">>
KickoffDeck == <<"K","i","c","k","o","f","f"," ","d","e","c","k">>

\* STATUS_OPTIONS[1] and PRIORITY_OPTIONS[1], the selectbox defaults; one
\* element per code point
STATUS_DEFAULT == <<"U+8A3A","U+5BDF","U+4E2D">>
PRIORITY_DEFAULT == <<"U+4E2D">>
KIND_DEFAULT == <<"W","e","b">>

(* ------------------------------- store --------------------------------- *)

TableNames == {"projects", "notes", "resources", "ideas"}

\* data.db before the first init_db(): no table
EmptyDb ==
  [exists |-> {},
   rows |-> [t \in TableNames |-> <<>>],
   seq |-> [t \in TableNames |-> 0]]

\* a slip: CREATE TABLE after DROP TABLE, which empties a table that exists
CreateTableRecreate(s, t) ==
  [exists |-> s.exists \cup {t},
   rows |-> [s.rows EXCEPT ![t] = <<>>],
   seq |-> [s.seq EXCEPT ![t] = 0]]

\* CREATE TABLE IF NOT EXISTS t (id INTEGER PRIMARY KEY AUTOINCREMENT, ...)
CreateTableIfNotExists(s, t) ==
  IF t \in s.exists THEN s
  ELSE [exists |-> s.exists \cup {t},
        rows |-> [s.rows EXCEPT ![t] = <<>>],
        seq |-> [s.seq EXCEPT ![t] = 0]]

\* a slip: DELETE FROM t, which keeps the table's sqlite_sequence entry
DropTableKeepSequence(s, t) ==
  IF t \in s.exists
    THEN [s EXCEPT !.rows[t] = <<>>]
    ELSE s

\* DROP TABLE IF EXISTS t: the rows go, and with them the table's
\* sqlite_sequence entry
DropTableIfExists(s, t) ==
  IF t \in s.exists
    THEN [exists |-> s.exists \ {t},
          rows |-> [s.rows EXCEPT ![t] = <<>>],
          seq |-> [s.seq EXCEPT ![t] = 0]]
    ELSE s

init_db(s) ==
  CreateTableIfNotExists(
    CreateTableIfNotExists(
      CreateTableIfNotExists(
        CreateTableIfNotExists(s, "projects"), "notes"), "resources"), "ideas")

\* a slip: only projects is dropped
DropProjectsOnly(s) == DropTableIfExists(s, "projects")

\* the loop of page_settings: for t in notes, projects, resources, ideas
DropAll(s) ==
  DropTableIfExists(
    DropTableIfExists(
      DropTableIfExists(
        DropTableIfExists(s, "notes"), "projects"), "resources"), "ideas")

\* a slip: the rowid last given is given again
NextRowIdReused(s, t) == IF s.seq[t] = 0 THEN 1 ELSE s.seq[t]

\* the rowid AUTOINCREMENT gives the next row of t
NextRowId(s, t) == s.seq[t] + 1

\* exec_sql("INSERT INTO t (...) VALUES (...)"): the new row is appended with
\* the next rowid, which exec_sql returns as cur.lastrowid
exec_insert(s, t, fields) ==
  [s EXCEPT !.rows[t] = Append(@, [id |-> NextRowId(s, t)] @@ fields),
            !.seq[t] = NextRowId(s, t)]

\* a slip: the UPDATE without its WHERE clause
exec_update_all(s, pid, fields, now) ==
  [s EXCEPT !.rows["projects"] =
     [i \in 1..Len(@) |-> ([updated_at |-> now] @@ fields) @@ @[i]]]

\* a slip: the UPDATE stamps created_at as well
exec_update_restamp(s, pid, fields, now) ==
  [s EXCEPT !.rows["projects"] =
     [i \in 1..Len(@) |->
        IF @[i].id = pid
          THEN ([created_at |-> now, updated_at |-> now] @@ fields) @@ @[i]
          ELSE @[i]]]

\* exec_sql("UPDATE projects SET <fields>, updated_at=? WHERE id=?")
exec_update(s, pid, fields, now) ==
  [s EXCEPT !.rows["projects"] =
     [i \in 1..Len(@) |->
        IF @[i].id = pid
          THEN ([updated_at |-> now] @@ fields) @@ @[i]
          ELSE @[i]]]

\* cursor.rowcount of that UPDATE
RowCount(s, pid) ==
  Cardinality({i \in 1..Len(s.rows["projects"]) : s.rows["projects"][i].id = pid})

Ids(s, t) == {s.rows[t][i].id : i \in 1..Len(s.rows[t])}

TotalRows(s) ==
  Len(s.rows["projects"]) + Len(s.rows["notes"])
    + Len(s.rows["resources"]) + Len(s.rows["ideas"])

(* ------------------------------- forms --------------------------------- *)

\* (x or "").strip() or None
StripOrNone(x) == IF strip(x) = <<>> THEN Null ELSE strip(x)

\* x or None
OrNone(x) == IF x = <<>> THEN Null ELSE x

\* project_form: the record of the widgets' values; every widget but the
\* title is left at its default
project_form(title) ==
  [title |-> strip(title),
   client |-> StripOrNone(<<>>),
   status |-> STATUS_DEFAULT,
   priority |-> PRIORITY_DEFAULT,
   owner |-> StripOrNone(<<>>),
   start_date |-> Null,
   due_date |-> Null,
   description |-> StripOrNone(<<>>),
   archived |-> 0]

\* what the user may type into the title widget, a note's text area, and the
\* title widget of a resource or an idea
TitleInputs == {AcmePortal, Widget}
ContentInputs == {KickoffCall}
NoteDates == {1, 2}
OptTitleInputs == {KickoffDeck}

(* ------------------------------ search --------------------------------- *)

\* a slip: the projection without its join
ProjectTitleNoJoin(s, pid) == Null

\* projects.title of the row LEFT JOINed ON projects.id = pid; NULL when no
\* project has that id
ProjectTitle(s, pid) ==
  LET P == s.rows["projects"]
      hit == {i \in 1..Len(P) : P[i].id = pid}
  IN IF hit = {} THEN Null ELSE P[CHOOSE i \in hit : TRUE].title

\* str(x) of a cell of a nullable INTEGER column as pandas reads it: int64
\* when no row is NULL, float64 when some are (NULL is nan), object when all
\* are (NULL is None)
NullableIntStr(column, x) ==
  IF \A y \in column : y # NullId THEN IntStr(x)
  ELSE IF \A y \in column : y = NullId THEN <<"N","o","n","e">>
  ELSE IF x = NullId THEN <<"n","a","n">>
  ELSE IntStr(x) \o <<".","0">>

ProjectIdColumn(s, t) == {s.rows[t][i].project_id : i \in 1..Len(s.rows[t])}

\* df_query of line 162; a frame row keeps its sort columns and the str() of
\* every projected cell, in the order of the SELECT.  The projects frame has
\* no note_date and no project_title column: the merged frame has no value
\* there
ProjectsFrame(s) ==
  [i \in 1..Len(s.rows["projects"]) |->
     LET r == s.rows["projects"][i] IN
     [id |-> r.id, updated_at |-> r.updated_at, note_date |-> NaN,
      project_title |-> Null,
      values |-> <<IntStr(r.id), TextStr(r.title), TextStr(r.status),
                   TextStr(r.priority), TextStr(r.owner), TextStr(r.due_date),
                   TextStr(r.description), IsoFormat(r.updated_at)>>]]

\* df_query of lines 170-173
NotesFrame(s) ==
  [i \in 1..Len(s.rows["notes"]) |->
     LET r == s.rows["notes"][i] IN
     [id |-> r.id, updated_at |-> NaN, note_date |-> r.note_date,
      project_title |-> ProjectTitle(s, r.project_id),
      values |-> <<IntStr(r.id), IntStr(r.project_id), DateIso(r.note_date),
                   TextStr(r.content), TextStr(r.next_action),
                   IntStr(r.progress_percent),
                   TextStr(ProjectTitle(s, r.project_id))>>]]

\* df_query of lines 181-184
ResourcesFrame(s) ==
  [i \in 1..Len(s.rows["resources"]) |->
     LET r == s.rows["resources"][i] IN
     [id |-> r.id, updated_at |-> NaN, note_date |-> NaN,
      project_title |-> ProjectTitle(s, r.project_id),
      values |-> <<IntStr(r.id),
                   NullableIntStr(ProjectIdColumn(s, "resources"), r.project_id),
                   TextStr(r.title), TextStr(r.kind), TextStr(r.url),
                   TextStr(r.local_path), TextStr(r.tags),
                   TextStr(ProjectTitle(s, r.project_id))>>]]

\* df_query of lines 192-195
IdeasFrame(s) ==
  [i \in 1..Len(s.rows["ideas"]) |->
     LET r == s.rows["ideas"][i] IN
     [id |-> r.id, updated_at |-> NaN, note_date |-> NaN,
      project_title |-> ProjectTitle(s, r.project_id),
      values |-> <<IntStr(r.id),
                   NullableIntStr(ProjectIdColumn(s, "ideas"), r.project_id),
                   TextStr(r.title), TextStr(r.url), TextStr(r.image_path),
                   TextStr(r.note), TextStr(r.tags),
                   TextStr(ProjectTitle(s, r.project_id)),
                   IntStr(r.pinned)>>]]

\* " ".join([str(x).lower() for x in r.values])
Haystack(r) == join(<<" ">>, [i \in 1..Len(r.values) |-> lower(r.values[i])])

\* a slip: the row's cells are not lower-cased before the match
TaggedCaseSensitive(frame, q_norm, kind) ==
  LET hits == SelectSeq(frame,
                LAMBDA r : contains(join(<<" ">>, r.values), q_norm))
  IN [i \in 1..Len(hits) |-> [kind |-> kind] @@ hits[i]]

\* frame[mask].copy() with the kind column set
Tagged(frame, q_norm, kind) ==
  LET hits == SelectSeq(frame, LAMBDA r : contains(Haystack(r), q_norm))
  IN [i \in 1..Len(hits) |-> [kind |-> kind] @@ hits[i]]

\* pd.concat(dfs, ignore_index=True, sort=False); a frame is in dfs when its
\* table has a row
Concat(s, q_norm) ==
  Tagged(ProjectsFrame(s), q_norm, "project")
    \o Tagged(NotesFrame(s), q_norm, "note")
    \o Tagged(ResourcesFrame(s), q_norm, "resource")
    \o Tagged(IdeasFrame(s), q_norm, "idea")

\* ascending=False, na_position="last" on one column: a comes strictly before
\* b when b is NaN and a is not, or both are values and a is the larger
KeyBefore(a, b) == a # NaN /\ (b = NaN \/ a > b)

\* the columns of `by` that the merged frame has: updated_at when projects has
\* a row, note_date when notes has a row
SortColumns(s) ==
  (IF s.rows["projects"] # <<>> THEN <<"updated_at">> ELSE <<>>)
    \o (IF s.rows["notes"] # <<>> THEN <<"note_date">> ELSE <<>>)

\* a sorts strictly before b on the columns cols, the first the major key
RowBefore(cols, a, b) ==
  \E k \in 1..Len(cols) :
     /\ KeyBefore(a[cols[k]], b[cols[k]])
     /\ \A j \in 1..(k - 1) : a[cols[j]] = b[cols[j]]

RowTied(cols, a, b) == \A k \in 1..Len(cols) : a[cols[k]] = b[cols[k]]

\* DataFrame.sort_values(by=cols, ascending=False, na_position="last"): on two
\* columns a stable lexsort; on one column nargsort with the default kind,
\* which on the frames of this model (at most 16 cells with a value) is an
\* insertion sort and keeps tied cells in order, the NaN rows appended in
\* their order.  Row i goes to the place after every row that sorts before it
\* and every tied row that precedes it.
sort_values(out, cols) ==
  LET n == Len(out)
      place(i) ==
        1 + Cardinality({j \in 1..n :
               \/ RowBefore(cols, out[j], out[i])
               \/ (RowTied(cols, out[j], out[i]) /\ j < i)})
  IN [k \in 1..n |-> out[CHOOSE i \in 1..n : place(i) = k]]

\* run_semanticish_search(q)
run_semanticish_search(s, q) ==
  LET q_norm == lower(q)
      out == Concat(s, q_norm)
  IN IF "updated_at" \in {SortColumns(s)[k] : k \in 1..Len(SortColumns(s))}
       THEN sort_values(out, SortColumns(s))
       ELSE out

\* what the user may type into the search box
Queries ==
  {<<>>, <<" ">>, <<"a","c","m","e">>, <<"M","E"," ","P","o","R">>,
   <<"k","i","c","k","o","f","f">>}

(* ---------------------------- page handlers ---------------------------- *)

\* the record of the last operation: its name, the table written, the id it
\* returned (an INSERT's cur.lastrowid) or was given (an UPDATE's pid), the
\* UPDATE's cursor.rowcount and, for a reset, the highest id of each table
\* dropped
Op(name, table, id, rowcount) ==
  [name |-> name, table |-> table, id |-> id, rowcount |-> rowcount,
   dropped |-> [t \in TableNames |-> 0]]

\* data.db does not exist before the first rerun
Init ==
  /\ db = EmptyDb
  /\ clock = 0
  /\ results = <<>>
  /\ query = <<>>
  /\ op = Op("start", "", 0, 0)

\* the values now_str() may return at or after the last reading
Now(from) == from..MaxClock

\* the page shows no search result after a rerun that runs no search
NoSearch == results' = <<>> /\ query' = <<>>

\* a write through exec_sql that inserts fields into table t, stamped by two
\* calls of now_str()
Insert(s, t, name, fields) ==
  /\ t \in s.exists
  /\ TotalRows(s) < MaxRows
  /\ \E t1 \in Now(clock) : \E t2 \in Now(t1) :
        /\ db' = exec_insert(s, t, fields @@ [created_at |-> t1, updated_at |-> t2])
        /\ clock' = t2
  /\ op' = Op(name, t, NextRowId(s, t), 1)
  /\ NoSearch

\* the UPDATE of page_projects on the project pid
Update(s, pid, edit_rec) ==
  /\ "projects" \in s.exists
  /\ \E now \in Now(clock) :
        /\ db' = exec_update(s, pid, edit_rec, now)
        /\ clock' = now
  /\ op' = Op("update_case", "projects", pid, RowCount(s, pid))
  /\ NoSearch

note_fields(pid, note_date, content) ==
  [project_id |-> pid, note_date |-> note_date, author |-> OrNone(<<>>),
   content |-> strip(content), next_action |-> OrNone(<<>>),
   progress_percent |-> 0]

resource_fields(pid, title) ==
  [project_id |-> pid, title |-> OrNone(title), kind |-> KIND_DEFAULT,
   url |-> OrNone(<<>>), local_path |-> Null, tags |-> OrNone(<<>>),
   note |-> OrNone(<<>>)]

idea_fields(pid, title) ==
  [project_id |-> pid, title |-> OrNone(title), url |-> OrNone(<<>>),
   image_path |-> Null, note |-> OrNone(<<>>), tags |-> OrNone(<<>>),
   pinned |-> 0]

\* a rerun that only renders: init_db() at line 487 and no button pressed
Rerun ==
  /\ db' = init_db(db)
  /\ op' = Op("init", "", 0, 0)
  /\ UNCHANGED clock
  /\ NoSearch

\* page_dashboard with q typed into the search box
page_dashboard ==
  \E q \in Queries :
     /\ db' = init_db(db)
     /\ query' = q
     /\ IF q # <<>>
          THEN results' = run_semanticish_search(init_db(db), q)
          ELSE results' = <<>>
     /\ op' = Op("search", "", 0, 0)
     /\ UNCHANGED clock

\* page_projects, the add button: disabled while the stripped title is empty
page_projects_add ==
  \E title \in TitleInputs :
     LET new_rec == project_form(title) IN
     /\ new_rec.title # <<>>
     /\ Insert(init_db(db), "projects", "add_case", new_rec)

\* page_projects, the update button: pid is one of all_df["id"]
page_projects_update ==
  \E pid \in Ids(init_db(db), "projects") : \E title \in TitleInputs :
     Update(init_db(db), pid, project_form(title))

\* page_notes, the add button: returns early when there is no project, pid is
\* one of pr_all["id"], and a blank content only warns
page_notes ==
  \E pid \in Ids(init_db(db), "projects") :
  \E d \in NoteDates : \E content \in ContentInputs :
     /\ strip(content) # <<>>
     /\ Insert(init_db(db), "notes", "add_note", note_fields(pid, d, content))

\* page_resources, the register button: pid is None or one of pr_all["id"]
page_resources ==
  \E pid \in {NullId} \cup Ids(init_db(db), "projects") :
  \E title \in OptTitleInputs :
     Insert(init_db(db), "resources", "add_resource", resource_fields(pid, title))

\* page_ideas, the add button
page_ideas ==
  \E pid \in {NullId} \cup Ids(init_db(db), "projects") :
  \E title \in OptTitleInputs :
     Insert(init_db(db), "ideas", "add_idea", idea_fields(pid, title))

\* page_settings, the reset button: drop the four tables, then init_db()
page_settings_reset ==
  /\ db' = init_db(DropAll(init_db(db)))
  /\ op' = [Op("reset", "", 0, 0) EXCEPT !.dropped = db.seq]
  /\ UNCHANGED clock
  /\ NoSearch

Next ==
  \/ Rerun
  \/ page_dashboard
  \/ page_projects_add
  \/ page_projects_update
  \/ page_notes
  \/ page_resources
  \/ page_ideas
  \/ page_settings_reset

\* every page of the application, one rerun at a time
Spec == Init /\ [][Next]_vars

NextWrites ==
  \/ Rerun
  \/ page_projects_add
  \/ page_projects_update
  \/ page_notes
  \/ page_resources
  \/ page_ideas
  \/ page_settings_reset

\* the pages that write to the store
SpecWrites == Init /\ [][NextWrites]_vars

(* ---------------------------- two sessions ----------------------------- *)

\* ids a session may still hold from a selectbox it rendered earlier
StaleIds == 1..MaxRows

\* page_projects, the update button, in a session that read all_df before
\* another session's reset or before the row existed: pid may name no row of
\* projects by the time the UPDATE runs
page_projects_update_stale ==
  \E pid \in StaleIds : \E title \in TitleInputs :
     Update(init_db(db), pid, project_form(title))

NextStore ==
  \/ Rerun
  \/ page_projects_add
  \/ page_projects_update_stale
  \/ page_notes
  \/ page_resources
  \/ page_ideas
  \/ page_settings_reset

\* the store under the writes of sessions that share data.db
SpecStore == Init /\ [][NextStore]_vars

(* --------------------------- required fields --------------------------- *)

\* what the user may leave in a required widget: nothing, or a blank
BlankInputs == {<<>>, <<" ">>}

\* page_projects, the add button, whatever the title widget holds: the button
\* is disabled while the stripped title is empty
page_projects_add_any ==
  \E title \in TitleInputs \cup BlankInputs :
     LET new_rec == project_form(title) IN
     /\ new_rec.title # <<>>
     /\ Insert(init_db(db), "projects", "add_case", new_rec)

\* page_projects, the update button, whatever the title widget holds: the
\* button is never disabled and the UPDATE follows the click at once
page_projects_update_any ==
  \E pid \in Ids(init_db(db), "projects") :
  \E title \in TitleInputs \cup BlankInputs :
     Update(init_db(db), pid, project_form(title))

\* page_notes, the add button, whatever the text area holds: a content that
\* strips to nothing gets the warning and no INSERT
page_notes_any ==
  \E pid \in Ids(init_db(db), "projects") :
  \E d \in NoteDates : \E content \in ContentInputs \cup BlankInputs :
     IF strip(content) = <<>>
       THEN /\ db' = init_db(db)
            /\ op' = Op("warn_note", "notes", 0, 0)
            /\ UNCHANGED clock
            /\ NoSearch
       ELSE Insert(init_db(db), "notes", "add_note", note_fields(pid, d, content))

NextForms ==
  \/ Rerun
  \/ page_projects_add_any
  \/ page_projects_update_any
  \/ page_notes_any

\* the pages that write a required field, their widgets filled or left blank
SpecForms == Init /\ [][NextForms]_vars

(* ------------------------------- claims --------------------------------- *)

InsertNames == {"add_case", "add_note", "add_resource", "add_idea"}

KindTable(kind) ==
  CASE kind = "project" -> "projects"
    [] kind = "note" -> "notes"
    [] kind = "resource" -> "resources"
    [] kind = "idea" -> "ideas"

Kinds == {"project", "note", "resource", "idea"}

\* the stored row a result row was read from
StoredRow(r) ==
  LET T == db.rows[KindTable(r.kind)]
  IN T[CHOOSE i \in 1..Len(T) : T[i].id = r.id]

\* the ids of the result rows tagged kind
ResultIds(kind) ==
  {results[i].id : i \in {k \in 1..Len(results) : results[k].kind = kind}}

\* the dashboard ran run_semanticish_search on the query
Searched == op.name = "search" /\ query # <<>>

Blank(q) == strip(q) = <<>>

Acme == <<"a","c","m","e">>
Kickoff == <<"k","i","c","k","o","f","f">>
MixedCase == <<"M","E"," ","P","o","R">>

\* C1: a search for the empty string or for a string of blanks only returns an
\* empty result sequence, whatever the tables hold.
C1_BlankQueryReturnsNothing ==
  (op.name = "search" /\ Blank(query)) => results = <<>>

\* C2: of two matching rows of different kinds whose stored updated_at differ,
\* the one updated later comes first in the result.
C2_LaterUpdatedFirstAcrossKinds ==
  (Searched /\ ~Blank(query)) =>
    \A i, j \in 1..Len(results) :
       (/\ results[i].kind # results[j].kind
        /\ StoredRow(results[i]).updated_at > StoredRow(results[j]).updated_at)
       => i < j

\* the place of a result row in the concatenation of the per-kind result sets
ConcatIndex(r) ==
  LET C == Concat(db, lower(query))
  IN CHOOSE k \in 1..Len(C) : C[k].kind = r.kind /\ C[k].id = r.id

\* C3: two matching rows with the same stored updated_at keep, in the result,
\* the order they have in the concatenation project, note, resource, idea.
C3_TiesKeepConcatenationOrder ==
  (Searched /\ ~Blank(query)) =>
    \A i, j \in 1..Len(results) :
       (/\ i < j
        /\ StoredRow(results[i]).updated_at = StoredRow(results[j]).updated_at)
       => ConcatIndex(results[i]) < ConcatIndex(results[j])

\* the haystack of the row id of a kind: the lower-cased str() of its projected
\* cells, the joined case title among them, joined by single blanks
HaystackOf(kind, id) ==
  LET F == CASE kind = "project" -> ProjectsFrame(db)
             [] kind = "note" -> NotesFrame(db)
             [] kind = "resource" -> ResourcesFrame(db)
             [] kind = "idea" -> IdeasFrame(db)
  IN Haystack(F[CHOOSE i \in 1..Len(F) : F[i].id = id])

\* C4: for a non-blank query and each kind, the result holds exactly the rows
\* of the kind whose haystack contains the lower-cased query, each once and
\* tagged with its kind; a Case whose title contains the query in any case is
\* returned as a project, and a Resource or Idea without a case is returned
\* when its own title matches.
C4_ExactlyTheMatchingRows ==
  (Searched /\ ~Blank(query)) =>
     /\ \A i \in 1..Len(results) : results[i].kind \in Kinds
     /\ \A i, j \in 1..Len(results) :
          (results[i].kind = results[j].kind /\ results[i].id = results[j].id)
          => i = j
     /\ \A kind \in Kinds :
          ResultIds(kind) =
            {id \in Ids(db, KindTable(kind)) :
               contains(HaystackOf(kind, id), lower(query))}
     /\ \A i \in 1..Len(db.rows["projects"]) :
          contains(lower(db.rows["projects"][i].title), lower(query))
          => db.rows["projects"][i].id \in ResultIds("project")
     /\ \A i \in 1..Len(db.rows["resources"]) :
          (/\ db.rows["resources"][i].project_id = NullId
           /\ contains(lower(TextStr(db.rows["resources"][i].title)), lower(query)))
          => db.rows["resources"][i].id \in ResultIds("resource")
     /\ \A i \in 1..Len(db.rows["ideas"]) :
          (/\ db.rows["ideas"][i].project_id = NullId
           /\ contains(lower(TextStr(db.rows["ideas"][i].title)), lower(query)))
          => db.rows["ideas"][i].id \in ResultIds("idea")

\* a mixed-case piece of a case title was searched and found the case and a
\* row attached to it
C4_Witness ==
  /\ Searched
  /\ query = MixedCase
  /\ ResultIds("project") # {}
  /\ Len(results) >= 2

\* one Case "Acme Portal", one Note on it "initial kickoff call", nothing else
AcmeScenario ==
  /\ Len(db.rows["projects"]) = 1
  /\ db.rows["projects"][1].title = AcmePortal
  /\ Len(db.rows["notes"]) = 1
  /\ db.rows["notes"][1].project_id = db.rows["projects"][1].id
  /\ db.rows["notes"][1].content = KickoffCall
  /\ db.rows["resources"] = <<>>
  /\ db.rows["ideas"] = <<>>

\* C5 as stated: in the scenario search("acme") returns one result, the
\* project, and not the note attached to it.
C5_AcmeReturnsOnlyTheCase ==
  (AcmeScenario /\ Searched /\ query = Acme) =>
     (Len(results) = 1 /\ results[1].kind = "project")

\* C5, amended: in the scenario search("acme") returns two results, the
\* project and then the note attached to it, which matches through
\* project_title; search("kickoff") returns one result, the note, with
\* project_title "Acme Portal".  A query contained in a Case's title returns
\* the Case and every Note, Resource and Idea attached to it.
C5_AcmeReturnsCaseAndAttached ==
  /\ (AcmeScenario /\ Searched /\ query = Acme) =>
        /\ Len(results) = 2
        /\ results[1].kind = "project"
        /\ results[2].kind = "note"
        /\ results[2].project_title = AcmePortal
  /\ (AcmeScenario /\ Searched /\ query = Kickoff) =>
        /\ Len(results) = 1
        /\ results[1].kind = "note"
        /\ results[1].project_title = AcmePortal
  /\ (Searched /\ ~Blank(query)) =>
        \A i \in 1..Len(db.rows["projects"]) :
           contains(lower(db.rows["projects"][i].title), lower(query)) =>
              /\ db.rows["projects"][i].id \in ResultIds("project")
              /\ \A kind \in {"note", "resource", "idea"} :
                 \A k \in 1..Len(db.rows[KindTable(kind)]) :
                    db.rows[KindTable(kind)][k].project_id
                       = db.rows["projects"][i].id
                    => db.rows[KindTable(kind)][k].id \in ResultIds(kind)

\* the scenario was searched for "acme"
C5_Witness == AcmeScenario /\ Searched /\ query = Acme

\* C6: after a reset the four tables exist and are empty, and the store is
\* the freshly created one, so that the insert that follows is given id 1 and
\* its row is the only row of its table.
C6_ResetGivesFreshStore ==
  [][/\ op'.name = "reset" => db' = init_db(EmptyDb)
     /\ (op.name = "reset" /\ op'.name \in InsertNames) =>
           /\ op'.id = 1
           /\ Len(db'.rows[op'.table]) = 1
           /\ db'.rows[op'.table][1].id = 1
           /\ \A t \in TableNames \ {op'.table} : db'.rows[t] = <<>>]_vars

\* a reset has just dropped rows
C6_Witness ==
  /\ op.name = "reset"
  /\ \E t \in TableNames : op.dropped[t] > 0
  /\ TotalRows(db) = 0

\* C7: an update on an id that no row of projects has changes no row of any
\* table, no updated_at among them, and completes with zero rows affected.
C7_UpdateOfMissingIdChangesNothing ==
  [][(op'.name = "update_case" /\ op'.id \notin Ids(db, "projects")) =>
        /\ db' = init_db(db)
        /\ db'.rows = db.rows
        /\ op'.rowcount = 0]_vars

\* an update ran on an id that no row has, while projects had a row
C7_Witness ==
  /\ op.name = "update_case"
  /\ op.id \notin Ids(db, "projects")
  /\ op.rowcount = 0
  /\ db.rows["projects"] # <<>>

\* C8 as stated: an insert returns an id greater than every id assigned before
\* to a row of its kind: the ids of the rows the table holds and the ids of
\* the rows a reset has just dropped.
C8_IdsNeverAssignedAgain ==
  [][op'.name \in InsertNames =>
        \A i \in Ids(db, op'.table)
                   \cup (IF op.name = "reset"
                           THEN 1..op.dropped[op'.table] ELSE {}) :
           op'.id > i]_vars

\* C8, amended: the ids of the rows a table holds are distinct and grow in
\* the order of insertion, and an insert returns an id greater than every id
\* assigned to a row of its kind since the last reset; a reset starts the
\* numbering again at 1.
C8_IdsUniqueAndGrowingSinceReset ==
  /\ \A t \in TableNames :
       \A i, j \in 1..Len(db.rows[t]) :
          i < j => db.rows[t][i].id < db.rows[t][j].id
  /\ op.name \in InsertNames =>
       /\ db.rows[op.table] # <<>>
       /\ db.rows[op.table][Len(db.rows[op.table])].id = op.id
       /\ \A i \in 1..(Len(db.rows[op.table]) - 1) :
             db.rows[op.table][i].id < op.id

\* an insert into a table that held a row
C8_Witness == op.name \in InsertNames /\ op.id >= 2

\* C9: every Note's project_id is the id of a Case in the store, and so is
\* every project_id of a Resource or an Idea that is not null.
C9_NoOrphanedReference ==
  /\ \A i \in 1..Len(db.rows["notes"]) :
        db.rows["notes"][i].project_id \in Ids(db, "projects")
  /\ \A t \in {"resources", "ideas"} :
        \A i \in 1..Len(db.rows[t]) :
           \/ db.rows[t][i].project_id = NullId
           \/ db.rows[t][i].project_id \in Ids(db, "projects")

\* a Note and a Resource attached to a Case are in the store
C9_Witness ==
  /\ db.rows["notes"] # <<>>
  /\ \E i \in 1..Len(db.rows["resources"]) :
        db.rows["resources"][i].project_id # NullId

\* C10: init_db() leaves the four tables and every row of them as they are,
\* and a second call changes nothing.
C10_InitDbIdempotentAndNonDestructive ==
  [][op'.name = "init" =>
        /\ db'.exists = TableNames
        /\ db'.rows = db.rows
        /\ db'.seq = db.seq
        /\ init_db(db') = db']_vars

\* init_db() ran on a store that holds rows
C10_Witness == op.name = "init" /\ TotalRows(db) > 0

\* the row of table t with the id
RowOf(s, t, id) ==
  s.rows[t][CHOOSE i \in 1..Len(s.rows[t]) : s.rows[t][i].id = id]

\* the rows of s other than the row id of table t, table by table
OtherRows(s, t, id) ==
  [u \in TableNames |->
     SelectSeq(s.rows[u], LAMBDA r : ~(u = t /\ r.id = id))]

\* C11: an insert stamps the created_at and the updated_at of the new row
\* with readings of the clock taken during the insert, and changes no other
\* row; an update of an existing Case overwrites its editable fields with the
\* form's values and sets updated_at to the time of the update, its id and
\* created_at and every other row of every table staying as they were; with
\* the clock not running backwards created_at <= updated_at holds of every
\* row of every table.
C11_StampsAndUpdateFrame ==
  [][/\ op'.name \in InsertNames =>
          LET r == RowOf(db', op'.table, op'.id) IN
          /\ clock <= r.created_at
          /\ r.created_at <= r.updated_at
          /\ r.updated_at = clock'
          /\ OtherRows(db', op'.table, op'.id) = db.rows
     /\ (op'.name = "update_case" /\ op'.id \in Ids(db, "projects")) =>
          LET old == RowOf(db, "projects", op'.id)
              new == RowOf(db', "projects", op'.id)
          IN /\ op'.rowcount = 1
             /\ new.id = old.id
             /\ new.created_at = old.created_at
             /\ new.updated_at = clock'
             /\ clock <= clock'
             /\ \E title \in TitleInputs :
                   new = [id |-> old.id, created_at |-> old.created_at,
                          updated_at |-> clock'] @@ project_form(title)
             /\ Len(db'.rows["projects"]) = Len(db.rows["projects"])
             /\ OtherRows(db', "projects", op'.id)
                  = OtherRows(db, "projects", op'.id)
     /\ \A t \in TableNames : \A i \in 1..Len(db'.rows[t]) :
          db'.rows[t][i].created_at <= db'.rows[t][i].updated_at]_vars

\* a Case created at one second was given another title at a later second,
\* while the store held another row
C11_Witness ==
  /\ op.name = "update_case"
  /\ op.rowcount = 1
  /\ TotalRows(db) >= 2
  /\ \E i \in 1..Len(db.rows["projects"]) :
        /\ db.rows["projects"][i].id = op.id
        /\ db.rows["projects"][i].created_at < db.rows["projects"][i].updated_at
        /\ db.rows["projects"][i].title = Widget

\* C12: after any sequence of add-case, update-case and add-note operations
\* of the pages, every stored Case has a non-empty title and every stored
\* Note a content that is not blank.
C12_RequiredFieldsNeverEmpty ==
  /\ \A i \in 1..Len(db.rows["projects"]) :
        strip(db.rows["projects"][i].title) # <<>>
  /\ \A i \in 1..Len(db.rows["notes"]) :
        strip(db.rows["notes"][i].content) # <<>>

====
